---- MODULE Spec2Model ----
(***************************************************************************)
(* Persistence / upsert layer of the FBRef pipeline                        *)
(* (src/src/database/repository.py, connection.py, models.py).             *)
(*                                                                         *)
(* Python values are tagged records: [t |-> "none"], [t |-> "str", v |->   *)
(* <<chars>>], [t |-> "int", v |-> n], [t |-> "bool", v |-> b],            *)
(* [t |-> "float", k |-> "nan" | "inf" | "fin", neg |-> b, tenths |-> n].  *)
(* A Python string is a sequence of one-character strings.  A dict is a    *)
(* function from key names to values.                                      *)
(***************************************************************************)
EXTENDS Integers, Sequences, FiniteSets, TLC

----------------------------------------------------------------------------
(* Bounds of the model *)

MaxLen == 2
MaxBatches == 2

Runs == {1, 2}

----------------------------------------------------------------------------
(* Python values *)

NoneV == [t |-> "none"]
StrV(s) == [t |-> "str", v |-> s]
IntV(n) == [t |-> "int", v |-> n]
BoolV(b) == [t |-> "bool", v |-> b]
NanV == [t |-> "float", k |-> "nan", neg |-> FALSE, tenths |-> 0]
InfV == [t |-> "float", k |-> "inf", neg |-> FALSE, tenths |-> 0]
FloatV(neg, tenths) == [t |-> "float", k |-> "fin", neg |-> neg, tenths |-> tenths]

\* dict.get(key): None when the key is absent
DictGet(d, key) == IF key \in DOMAIN d THEN d[key] ELSE NoneV

Whitespace == {" ", "\t", "\n", "NBSP"}
Digits == {"0", "1", "2", "3", "4", "5", "6", "7", "8", "9"}

DigitVal(c) ==
  CASE c = "0" -> 0 [] c = "1" -> 1 [] c = "2" -> 2 [] c = "3" -> 3
    [] c = "4" -> 4 [] c = "5" -> 5 [] c = "6" -> 6 [] c = "7" -> 7
    [] c = "8" -> 8 [] c = "9" -> 9

DigitChar(n) ==
  CASE n = 0 -> "0" [] n = 1 -> "1" [] n = 2 -> "2" [] n = 3 -> "3"
    [] n = 4 -> "4" [] n = 5 -> "5" [] n = 6 -> "6" [] n = 7 -> "7"
    [] n = 8 -> "8" [] n = 9 -> "9"

RECURSIVE LStrip(_)
LStrip(s) ==
  IF s = <<>> THEN s
  ELSE IF Head(s) \in Whitespace THEN LStrip(Tail(s)) ELSE s

RECURSIVE RStrip(_)
RStrip(s) ==
  IF s = <<>> THEN s
  ELSE IF s[Len(s)] \in Whitespace THEN RStrip(SubSeq(s, 1, Len(s) - 1)) ELSE s

\* str.strip()
Strip(s) == RStrip(LStrip(s))

\* str.replace(",", "")
RECURSIVE RemoveCommas(_)
RemoveCommas(s) ==
  IF s = <<>> THEN s
  ELSE IF Head(s) = "," THEN RemoveCommas(Tail(s))
       ELSE <<Head(s)>> \o RemoveCommas(Tail(s))

RECURSIVE NatToChars(_)
NatToChars(n) ==
  IF n < 10 THEN <<DigitChar(n)>>
  ELSE NatToChars(n \div 10) \o <<DigitChar(n % 10)>>

\* str(value)
PyStr(value) ==
  CASE value.t = "str" -> value.v
    [] value.t = "int" ->
         IF value.v < 0 THEN <<"-">> \o NatToChars(-value.v) ELSE NatToChars(value.v)
    [] value.t = "bool" ->
         IF value.v THEN <<"T", "r", "u", "e">> ELSE <<"F", "a", "l", "s", "e">>
    [] value.t = "float" ->
         IF value.k = "nan" THEN <<"n", "a", "n">>
         ELSE IF value.k = "inf"
              THEN (IF value.neg THEN <<"-">> ELSE <<>>) \o <<"i", "n", "f">>
              ELSE (IF value.neg THEN <<"-">> ELSE <<>>)
                   \o NatToChars(value.tenths \div 10) \o <<".">>
                   \o NatToChars(value.tenths % 10)

\* DataService._normalise_string
_normalise_string(value) ==
  IF value.t = "none" THEN <<>> ELSE Strip(PyStr(value))

\* value or None, for a string
OrNone(s) == IF s = <<>> THEN NoneV ELSE StrV(s)

----------------------------------------------------------------------------
(* float(text): the outcome is a record                                    *)
(*   [k |-> "err"]                       ValueError                        *)
(*   [k |-> "nan" | "inf" | "fin", neg, tenths]                            *)
(* The grammar covered is [sign] digits [ "." digits ], [sign] "." digits, *)
(* [sign] "inf" | "infinity" | "nan" in any letter case; a finite value is *)
(* kept to one decimal digit.                                              *)

AllDigits(s) == \A i \in 1..Len(s) : s[i] \in Digits

RECURSIVE CharsToNat(_)
CharsToNat(s) ==
  IF s = <<>> THEN 0
  ELSE CharsToNat(SubSeq(s, 1, Len(s) - 1)) * 10 + DigitVal(s[Len(s)])

Lower(s) ==
  [i \in 1..Len(s) |->
     CASE s[i] = "I" -> "i" [] s[i] = "N" -> "n" [] s[i] = "F" -> "f"
       [] s[i] = "A" -> "a" [] s[i] = "T" -> "t" [] s[i] = "Y" -> "y"
       [] s[i] = "O" -> "o" [] s[i] = "L" -> "l" [] s[i] = "S" -> "s"
       [] s[i] = "Q" -> "q" [] s[i] = "U" -> "u" [] s[i] = "D" -> "d"
       [] s[i] = "P" -> "p" [] s[i] = "E" -> "e" [] s[i] = "M" -> "m"
       [] s[i] = "C" -> "c" [] s[i] = "H" -> "h" [] OTHER -> s[i]]

DotIndex(s) ==
  IF \E i \in 1..Len(s) : s[i] = "."
  THEN CHOOSE i \in 1..Len(s) : s[i] = "." /\ \A j \in 1..(i - 1) : s[j] # "."
  ELSE 0

ParseUnsigned(s, neg) ==
  LET low == Lower(s)
      d == DotIndex(s)
      ip == IF d = 0 THEN s ELSE SubSeq(s, 1, d - 1)
      fp == IF d = 0 THEN <<>> ELSE SubSeq(s, d + 1, Len(s))
  IN  IF low = <<"n", "a", "n">> THEN [k |-> "nan", neg |-> neg, tenths |-> 0]
      ELSE IF low = <<"i", "n", "f">> \/ low = <<"i", "n", "f", "i", "n", "i", "t", "y">>
      THEN [k |-> "inf", neg |-> neg, tenths |-> 0]
      ELSE IF /\ AllDigits(ip) /\ AllDigits(fp)
              /\ Len(ip) + Len(fp) > 0
      THEN [k |-> "fin", neg |-> neg,
            tenths |-> CharsToNat(ip) * 10 + (IF fp = <<>> THEN 0 ELSE DigitVal(fp[1]))]
      ELSE [k |-> "err"]

ParseFloat(s) ==
  IF s = <<>> THEN [k |-> "err"]
  ELSE ParseUnsigned(IF Head(s) \in {"-", "+"} THEN Tail(s) ELSE s, Head(s) = "-")

\* int(x) of a finite float: truncation toward zero
TruncFloat(f) == IF f.neg THEN -(f.tenths \div 10) ELSE f.tenths \div 10

(* The outcome of a coercion is [ok |-> TRUE, v |-> value] or, when the    *)
(* call raises, [ok |-> FALSE, v |-> exception name]: int() of an          *)
(* infinity raises OverflowError.                                          *)
Ret(v) == [ok |-> TRUE, v |-> v]

IntOfFloat(f) ==
  IF f.k = "inf" THEN [ok |-> FALSE, v |-> "OverflowError"] ELSE Ret(IntV(TruncFloat(f)))

\* repository.py 269-275: float(cleaned) fails or is NaN -> default, else int()
IntOfParsed(numeric_value, default) ==
  IF numeric_value.k \in {"err", "nan"} THEN Ret(default)
  ELSE IntOfFloat(numeric_value)

\* repository.py 290-296: float(cleaned) fails or is NaN -> default
FloatOfParsed(numeric_value, default) ==
  IF numeric_value.k \in {"err", "nan"} THEN Ret(default)
  ELSE Ret([t |-> "float", k |-> numeric_value.k,
            neg |-> numeric_value.neg, tenths |-> numeric_value.tenths])

\* repository.py 266, 287: value.replace(",", "").strip()
Cleaned(value) == Strip(RemoveCommas(value.v))

\* DataService._coerce_int(value, default)
_coerce_int(value, default) ==
  CASE value.t = "none" -> Ret(default)
    [] value.t = "bool" -> Ret(IntV(IF value.v THEN 1 ELSE 0))
    [] value.t = "int" -> Ret(value)
    [] value.t = "float" ->
         IF value.k = "nan" THEN Ret(default) ELSE IntOfFloat(value)
    [] value.t = "str" ->
         IF Cleaned(value) = <<>> THEN Ret(default)
         ELSE IntOfParsed(ParseFloat(Cleaned(value)), default)
    [] OTHER -> Ret(default)

\* DataService._coerce_float(value, default)
_coerce_float(value, default) ==
  CASE value.t = "none" -> Ret(default)
    [] value.t = "bool" -> Ret(FloatV(FALSE, IF value.v THEN 10 ELSE 0))
    [] value.t = "int" ->
         Ret(FloatV(value.v < 0, 10 * (IF value.v < 0 THEN -value.v ELSE value.v)))
    [] value.t = "float" -> IF value.k = "nan" THEN Ret(default) ELSE Ret(value)
    [] value.t = "str" ->
         IF Cleaned(value) = <<>> THEN Ret(default)
         ELSE FloatOfParsed(ParseFloat(Cleaned(value)), default)
    [] OTHER -> Ret(default)

\* DataService._replace_nan on a scalar or a dict of scalars
_replace_nan(value) ==
  IF "t" \in DOMAIN value
  THEN IF value.t = "float" /\ value.k = "nan" THEN NoneV ELSE value
  ELSE [key \in DOMAIN value |->
          IF value[key].t = "float" /\ value[key].k = "nan" THEN NoneV ELSE value[key]]

----------------------------------------------------------------------------
(* Season labels *)

Dashes == {"-", "EN_DASH"}

\* datetime.utcnow().year
CurrentYear == 2026

FourDigitsAt(s, i) ==
  /\ i >= 1
  /\ i + 3 <= Len(s)
  /\ \A j \in i..(i + 3) : s[j] \in Digits

RECURSIVE SkipSpaces(_, _)
SkipSpaces(s, j) ==
  IF j <= Len(s) /\ s[j] \in Whitespace THEN SkipSpaces(s, j + 1) ELSE j

\* position of the second year when (\d{4})\s*[-–]\s*(\d{4}) matches at i, else 0
PairSecondAt(s, i) ==
  IF ~FourDigitsAt(s, i) THEN 0
  ELSE LET d == SkipSpaces(s, i + 4)
       IN  IF d > Len(s) \/ s[d] \notin Dashes THEN 0
           ELSE LET k == SkipSpaces(s, d + 1)
                IN  IF FourDigitsAt(s, k) THEN k ELSE 0

\* re.search: the leftmost position of a set of match positions
Leftmost(S) == CHOOSE x \in S : \A y \in S : x <= y

\* int(match.group(...)) of the four digits at i
YearAt(s, i) == CharsToNat(SubSeq(s, i, i + 3))

\* the positions where (\d{4})\s*[-–]\s*(\d{4}) matches
PairStarts(s) == {i \in 1..Len(s) : PairSecondAt(s, i) # 0}

\* the positions where (\d{4}) matches
SingleStarts(s) == {i \in 1..Len(s) : FourDigitsAt(s, i)}

SeasonBounds_single_first(cleaned) ==
  IF SingleStarts(cleaned) # {}
  THEN <<YearAt(cleaned, Leftmost(SingleStarts(cleaned))),
         YearAt(cleaned, Leftmost(SingleStarts(cleaned))) + 1>>
  ELSE <<CurrentYear, CurrentYear + 1>>

\* repository.py 311-320 on the normalised label
SeasonBounds(cleaned) ==
  IF PairStarts(cleaned) # {}
  THEN <<YearAt(cleaned, Leftmost(PairStarts(cleaned))),
         YearAt(cleaned, PairSecondAt(cleaned, Leftmost(PairStarts(cleaned))))>>
  ELSE IF SingleStarts(cleaned) # {}
  THEN <<YearAt(cleaned, Leftmost(SingleStarts(cleaned))),
         YearAt(cleaned, Leftmost(SingleStarts(cleaned))) + 1>>
  ELSE <<CurrentYear, CurrentYear + 1>>

\* DataService._parse_season_bounds
_parse_season_bounds(season_name) == SeasonBounds(_normalise_string(season_name))

----------------------------------------------------------------------------
(* Payloads offered to save_player_data *)

Payload(team_name, player_name, season, goals) ==
  [team_name |-> team_name, player_name |-> player_name,
   season |-> season, goals |-> goals]

TeamA == StrV(<<"A">>)
TeamB == StrV(<<"B", " ">>)
PlayerP == StrV(<<" ", "P">>)
Season2023 == StrV(<<"2", "0", "2", "3">>)

Payloads ==
  {Payload(StrV(<<" ">>), PlayerP, NoneV, IntV(16)),
   Payload(TeamA, StrV(<<>>), NoneV, IntV(16)),
   Payload(TeamA, PlayerP, NoneV, InfV),
   Payload(TeamA, PlayerP, NoneV, IntV(16)),
   Payload(TeamA, PlayerP, NoneV, StrV(<<"9">>)),
   Payload(TeamA, PlayerP, Season2023, IntV(16)),
   Payload(TeamB, PlayerP, NoneV, StrV(<<"9">>))}

IntCounters ==
  {"matches_played", "starts", "minutes_played", "goals", "assists",
   "penalties_scored", "penalties_attempted", "yellow_cards", "red_cards",
   "progressive_carries", "progressive_passes"}

FloatCounters == {"expected_goals", "expected_assists"}

\* truthiness of a Python value
Truthy(value) ==
  IF "t" \notin DOMAIN value THEN DOMAIN value # {}
  ELSE CASE value.t = "none" -> FALSE
         [] value.t = "str" -> value.v # <<>>
         [] value.t = "int" -> value.v # 0
         [] value.t = "bool" -> value.v
         [] value.t = "float" -> value.k # "fin" \/ value.tenths # 0

\* x or 0
OrZero(value) == IF Truthy(value) THEN value ELSE IntV(0)

\* repository.py 389-402: the payload value a counter is read from
CounterSource(player_data, c) ==
  IF c = "minutes_played"
  THEN IF "minutes_played" \in DOMAIN player_data THEN player_data["minutes_played"]
       ELSE DictGet(player_data, "minutes")
  ELSE DictGet(player_data, c)

PlayerAge_default_zero(player_data) == _coerce_int(DictGet(player_data, "age"), IntV(0))

\* repository.py 361: the age coercion, default None
PlayerAge(player_data) == _coerce_int(DictGet(player_data, "age"), NoneV)

\* repository.py 389-402: some numeric coercion of the payload raises
CounterRaises(player_data) ==
  \E c \in IntCounters : ~_coerce_int(CounterSource(player_data, c), IntV(0)).ok

\* repository.py 389-425: the stats_values dict (when no coercion raises)
stats_values(player_data, team_id) ==
  [c \in IntCounters \cup FloatCounters \cup {"team_id", "raw_data"} |->
     IF c = "team_id" THEN team_id
     ELSE IF c = "raw_data"
     THEN [json |-> _replace_nan(
                      IF "raw_data" \in DOMAIN player_data
                           /\ Truthy(player_data["raw_data"])
                      THEN player_data["raw_data"] ELSE player_data)]
     ELSE IF c \in IntCounters
     THEN OrZero(_coerce_int(CounterSource(player_data, c), IntV(0)).v)
     ELSE _coerce_float(DictGet(player_data, c), FloatV(FALSE, 0)).v]

----------------------------------------------------------------------------
(* The store: committed rows per table, and per session the rows inserted  *)
(* and the column changes made but not yet committed.  A session reads the *)
(* committed rows overlaid with its own pending writes.  Ids come from     *)
(* per-table sequences that a rollback does not rewind.                    *)

TableNames == {"teams", "seasons", "players", "player_stats"}

EmptyTables == [t \in TableNames |-> {}]

PatchRow(row, changes) ==
  [c \in DOMAIN row |-> IF c \in DOMAIN changes THEN changes[c] ELSE row[c]]

MergeDict(old, new) ==
  [c \in DOMAIN old \cup DOMAIN new |-> IF c \in DOMAIN new THEN new[c] ELSE old[c]]

ApplyUpd(rows, upds) ==
  {IF \E u \in upds : u.id = row.id
   THEN PatchRow(row, (CHOOSE u \in upds : u.id = row.id).set)
   ELSE row : row \in rows}

\* what a query of session L sees
View(C, L) == [t \in TableNames |-> ApplyUpd(C[t], L.upd[t]) \cup L.ins[t]]

\* session.commit(): the pending writes become committed
CommitRows(C, L) == [t \in TableNames |-> ApplyUpd(C[t], L.upd[t]) \cup L.ins[t]]

\* setattr on a loaded row of table t (flushed now or at commit)
SetAttrs(L, t, id, changes) ==
  IF \E row \in L.ins[t] : row.id = id
  THEN [L EXCEPT !.ins[t] =
          {IF row.id = id THEN PatchRow(row, changes) ELSE row : row \in @}]
  ELSE IF \E u \in L.upd[t] : u.id = id
  THEN [L EXCEPT !.upd[t] =
          {IF u.id = id THEN [id |-> id, set |-> MergeDict(u.set, changes)] ELSE u
             : u \in @}]
  ELSE [L EXCEPT !.upd[t] = @ \cup {[id |-> id, set |-> changes]}]

\* session.rollback(): every uncommitted write of the session is discarded
Rollback(L) == [L EXCEPT !.ins = EmptyTables, !.upd = EmptyTables]

IdleRun ==
  [pc |-> "idle", mode |-> "free", idx |-> 0, cur |-> <<>>,
   ins |-> EmptyTables, upd |-> EmptyTables,
   team_id |-> 0, season_id |-> 0, player_id |-> 0, existing_id |-> 0,
   stats |-> [teams |-> 0, players |-> 0, stats |-> 0, errors |-> 0],
   processed_team_ids |-> {}, processed_player_ids |-> {},
   resolved_team_ids |-> {}, resolved_player_ids |-> {}, counted |-> {},
   outcome |-> "none", failure |-> "none", begin |-> EmptyTables]

VARIABLES committed, nextId, run, started, given, snapshot, replayable,
          pipe, probe

vars == <<committed, nextId, run, started, given, snapshot, replayable,
          pipe, probe>>

Init ==
  /\ committed = EmptyTables
  /\ nextId = [t \in TableNames |-> 1]
  /\ run = [r \in Runs |-> IdleRun]
  /\ started = 0
  /\ given = <<>>
  /\ snapshot = EmptyTables
  /\ replayable = FALSE
  /\ pipe = ([pc |-> "idle", leagues |-> 0, league |-> 0, teams |-> 0, team |-> 0,
             log |-> <<>>, data |-> <<>>, result |-> "none"])
  /\ probe = ([fn |-> "none"])

----------------------------------------------------------------------------
(* Repository queries and the per-payload steps of save_player_data *)

\* TeamRepository.get_by_name / SeasonRepository.get_by_name
get_by_name(rows, name) == {row \in rows : row.name = name}

get_by_name_and_team_never(rows, name, team_id) == {}

\* PlayerRepository.get_by_name_and_team
get_by_name_and_team(rows, name, team_id) ==
  {row \in rows : row.name = name /\ row.team_id = team_id}

get_by_player_and_season_never(rows, player_id, season_id) == {}

get_by_player_and_season_swapped(rows, player_id, season_id) ==
  {row \in rows : row.player_id = season_id /\ row.season_id = player_id}

\* PlayerStatsRepository.get_by_player_and_season
get_by_player_and_season(rows, player_id, season_id) ==
  {row \in rows : row.player_id = player_id /\ row.season_id = season_id}

\* repository.py 331, 340
TeamName(L) == _normalise_string(DictGet(L.cur, "team_name"))
TeamUrl(L) == OrNone(_normalise_string(DictGet(L.cur, "team_url")))

\* repository.py 346
SeasonName(L) ==
  LET season_name == _normalise_string(DictGet(L.cur, "season"))
  IN  IF season_name = <<>> THEN (<<"2", "0", "2", "4", "-", "2", "0", "2", "5">>) ELSE season_name

\* repository.py 352, 358-360
PlayerName(L) == _normalise_string(DictGet(L.cur, "player_name"))

\* the identity of the record the current payload is about
PayloadKey(L) == [team |-> TeamName(L), player |-> PlayerName(L), season |-> SeasonName(L)]

\* repository.py 333-335, 354-356, 441-444: the payload is counted as an error
\* and the loop continues
Fail(L) ==
  [L EXCEPT !.stats.errors = @ + 1, !.pc = "loop", !.outcome = "error"]

\* repository.py 30-33 then 441-444: create() rolls the session back and
\* re-raises; the payload is counted as an error
IntegrityFail(L) == Fail(Rollback(L))

\* repository.py 329-335: the loop takes the next payload
BeginPayload(C, L, player_data) ==
  LET L1 == [L EXCEPT !.cur = player_data, !.idx = @ + 1,
                      !.team_id = 0, !.season_id = 0, !.player_id = 0,
                      !.existing_id = 0, !.outcome = "none"]
  IN  IF TeamName(L1) = <<>> THEN Fail(L1) ELSE [L1 EXCEPT !.pc = "team_lookup"]

TeamResolved_per_payload(L, id) ==
  [L EXCEPT !.team_id = id,
            !.processed_team_ids = @ \cup {id},
            !.stats.teams = @ + 1,
            !.resolved_team_ids = @ \cup {id},
            !.pc = "season_lookup"]

\* repository.py 342-344
TeamResolved(L, id) ==
  [L EXCEPT !.team_id = id,
            !.processed_team_ids = @ \cup {id},
            !.stats.teams = IF id \in L.processed_team_ids THEN @ ELSE @ + 1,
            !.resolved_team_ids = @ \cup {id},
            !.pc = "season_lookup"]

SeasonResolved_no_name_check(L, id) ==
  LET L1 == [L EXCEPT !.season_id = id]
  IN  IF ~PlayerAge(L1.cur).ok THEN Fail(L1)
      ELSE [L1 EXCEPT !.pc = "player_lookup"]

\* repository.py 352-361: after the season is resolved
SeasonResolved(L, id) ==
  LET L1 == [L EXCEPT !.season_id = id]
  IN  IF PlayerName(L1) = <<>> THEN Fail(L1)
      ELSE IF ~PlayerAge(L1.cur).ok THEN Fail(L1)
      ELSE [L1 EXCEPT !.pc = "player_lookup"]

\* repository.py 358-361: position, nationality, player_url and age
PlayerAttrs(L) ==
  [position |-> OrNone(_normalise_string(DictGet(L.cur, "position"))),
   nationality |-> OrNone(_normalise_string(DictGet(L.cur, "nationality"))),
   age |-> PlayerAge(L.cur).v, fbref_url |->
     OrNone(_normalise_string(DictGet(L.cur, "player_url")))]

PlayerCounted_per_payload(L, id) ==
  [L EXCEPT !.player_id = id,
            !.processed_player_ids = @ \cup {id},
            !.stats.players = @ + 1,
            !.resolved_player_ids = @ \cup {id}]

\* repository.py 372-374
PlayerCounted(L, id) ==
  [L EXCEPT !.player_id = id,
            !.processed_player_ids = @ \cup {id},
            !.stats.players = IF id \in L.processed_player_ids THEN @ ELSE @ + 1,
            !.resolved_player_ids = @ \cup {id}]

\* repository.py 385-386: apply the partial update when there is one
PlayerUpdated(L, id, player_updates) ==
  IF DOMAIN player_updates # {}
  THEN SetAttrs(L, "players", id, player_updates)
  ELSE L

\* repository.py 389-402: the counters are coerced; a coercion may raise
CountersCoerced(L) ==
  IF CounterRaises(L.cur) THEN Fail(L) ELSE [L EXCEPT !.pc = "stats_lookup"]

\* the columns of a Player that a payload describes
PlayerFields == {"position", "nationality", "age", "fbref_url"}

PlayerUpdates_all_fields(player, attrs) == [k \in PlayerFields |-> attrs[k]]

\* repository.py 376-384: the partial update of an existing player
PlayerUpdates(player, attrs) ==
  [k \in {c \in {"position", "nationality", "age", "fbref_url"} :
            /\ IF c = "age" THEN attrs[c].t # "none" ELSE Truthy(attrs[c])
            /\ player[c] # attrs[c]} |-> attrs[k]]

\* repository.py 372-402: after the player is resolved
PlayerResolved(L, player) ==
  CountersCoerced(
    PlayerUpdated(PlayerCounted(L, player.id), player.id,
                  PlayerUpdates(player, PlayerAttrs(L))))

\* repository.py 439
StatsCounted(L) ==
  [L EXCEPT !.stats.stats = @ + 1, !.counted = @ \cup {PayloadKey(L)},
            !.outcome = "ok", !.pc = "loop"]

\* a payload that save_player_data accepts: names present, counters coercible
ValidPayload(player_data) ==
  /\ _normalise_string(DictGet(player_data, "team_name")) # <<>>
  /\ _normalise_string(DictGet(player_data, "player_name")) # <<>>
  /\ PlayerAge(player_data).ok
  /\ ~CounterRaises(player_data)

----------------------------------------------------------------------------
(* connection.py 93-105: the transactional scope *)

\* session_scope, normal exit: session.commit()
session_scope_commit(C, L) == CommitRows(C, L)

session_scope_rollback_commits(C, L) == CommitRows(C, L)

\* session_scope, exceptional exit: session.rollback(), then the exception
\* propagates; the committed rows are what they were
session_scope_rollback(C, L) == C

----------------------------------------------------------------------------
(* The database steps of one payload.  Each takes the committed rows C,    *)
(* the id sequences N and the session L, and gives the new [N, L].  A      *)
(* lookup is Query.first(): choice is the row it returns among the rows    *)
(* that match, NoRow when none matches.                                    *)

NoRow == [id |-> 0]

\* the rows a lookup at L.pc can return
Candidates(C, L) ==
  LET view == View(C, L)
      found ==
        CASE L.pc = "team_lookup" -> get_by_name(view.teams, TeamName(L))
          [] L.pc = "season_lookup" -> get_by_name(view.seasons, SeasonName(L))
          [] L.pc = "player_lookup" ->
               get_by_name_and_team(view.players, PlayerName(L), L.team_id)
          [] L.pc = "stats_lookup" ->
               get_by_player_and_season(view.player_stats, L.player_id, L.season_id)
          [] OTHER -> {}
  IN  IF found = {} THEN {NoRow} ELSE found

TeamLookupStep_overwrites_url(N, L, choice) ==
  [N |-> N,
   L |-> IF choice.id = 0 THEN [L EXCEPT !.pc = "team_create"]
         ELSE TeamResolved(SetAttrs(L, "teams", choice.id, [fbref_url |-> TeamUrl(L)]),
                           choice.id)]

\* TeamRepository.get_or_create, repository.py 79-80
TeamLookupStep(N, L, choice) ==
  [N |-> N,
   L |-> IF choice.id = 0 THEN [L EXCEPT !.pc = "team_create"]
         ELSE TeamResolved(L, choice.id)]

TeamInserted_no_unique(C, L, team) ==
  TeamResolved([L EXCEPT !.ins.teams = @ \cup {team}], team.id)

\* BaseRepository.create of a Team row, repository.py 25-33
TeamInserted(C, L, team) ==
  IF \E row \in View(C, L).teams : row.name = team.name
  THEN IntegrityFail(L)
  ELSE TeamResolved([L EXCEPT !.ins.teams = @ \cup {team}], team.id)

\* TeamRepository.get_or_create, repository.py 81 -> BaseRepository.create:
\* the unique index on teams.name rejects a second row of the same name
TeamCreateStep(C, N, L) ==
  [N |-> [N EXCEPT !.teams = @ + 1],
   L |-> TeamInserted(C, L, [id |-> N.teams, name |-> TeamName(L),
                             fbref_url |-> TeamUrl(L),
                             league |-> NoneV, country |-> NoneV])]

\* SeasonRepository.get_or_create, repository.py 135-136
SeasonLookupStep(N, L, choice) ==
  [N |-> N,
   L |-> IF choice.id = 0 THEN [L EXCEPT !.pc = "season_create"]
         ELSE SeasonResolved(L, choice.id)]

\* BaseRepository.create of a Season row, repository.py 25-33
SeasonInserted(C, L, season) ==
  IF \E row \in View(C, L).seasons : row.name = season.name
  THEN IntegrityFail(L)
  ELSE SeasonResolved([L EXCEPT !.ins.seasons = @ \cup {season}], season.id)

\* SeasonRepository.get_or_create, repository.py 137-142 -> BaseRepository.create:
\* the unique index on seasons.name rejects a second row of the same name
SeasonCreateStep(C, N, L) ==
  [N |-> [N EXCEPT !.seasons = @ + 1],
   L |-> SeasonInserted(C, L, [id |-> N.seasons, name |-> SeasonName(L),
                            start_year |-> _parse_season_bounds(StrV(SeasonName(L)))[1],
                            end_year |-> _parse_season_bounds(StrV(SeasonName(L)))[2],
                            is_active |-> TRUE])]

\* PlayerRepository.get_or_create, repository.py 103-104
PlayerLookupStep(N, L, choice) ==
  [N |-> N,
   L |-> IF choice.id = 0 THEN [L EXCEPT !.pc = "player_create"]
         ELSE PlayerResolved(L, choice)]

\* BaseRepository.create of a Player row, repository.py 25-29
PlayerInserted(L, player) ==
  PlayerResolved([L EXCEPT !.ins.players = @ \cup {player}], player)

\* PlayerRepository.get_or_create, repository.py 105 -> BaseRepository.create
PlayerCreateStep(N, L) ==
  [N |-> [N EXCEPT !.players = @ + 1],
   L |-> PlayerInserted(L, MergeDict([id |-> N.players, name |-> PlayerName(L),
                                      team_id |-> L.team_id],
                                     PlayerAttrs(L)))]

StatsLookupStep_keeps_old(N, L, choice) ==
  [N |-> N,
   L |-> IF choice.id = 0 THEN [L EXCEPT !.pc = "stats_create"]
         ELSE StatsCounted([L EXCEPT !.existing_id = choice.id])]

\* repository.py 408, 427-430, 439: look the stats row up; overwrite it when found
StatsLookupStep(N, L, choice) ==
  [N |-> N,
   L |-> IF choice.id = 0 THEN [L EXCEPT !.pc = "stats_create"]
         ELSE StatsCounted(SetAttrs([L EXCEPT !.existing_id = choice.id],
                                    "player_stats", choice.id,
                                    stats_values(L.cur, L.team_id)))]

\* repository.py 432-439: create the stats row
StatsCreateStep(N, L) ==
  LET row == MergeDict([id |-> N.player_stats, player_id |-> L.player_id,
                        season_id |-> L.season_id],
                       stats_values(L.cur, L.team_id))
  IN  [N |-> [N EXCEPT !.player_stats = @ + 1],
       L |-> StatsCounted([L EXCEPT !.ins.player_stats = @ \cup {row}])]

\* the step at L.pc
DoStep(C, N, L, choice) ==
  CASE L.pc = "team_lookup" -> TeamLookupStep(N, L, choice)
    [] L.pc = "team_create" -> TeamCreateStep(C, N, L)
    [] L.pc = "season_lookup" -> SeasonLookupStep(N, L, choice)
    [] L.pc = "season_create" -> SeasonCreateStep(C, N, L)
    [] L.pc = "player_lookup" -> PlayerLookupStep(N, L, choice)
    [] L.pc = "player_create" -> PlayerCreateStep(N, L)
    [] L.pc = "stats_lookup" -> StatsLookupStep(N, L, choice)
    [] L.pc = "stats_create" -> StatsCreateStep(N, L)

\* repository.py 329-444: one iteration of the loop, run to its end with no
\* other session in between
RECURSIVE RunPayload(_, _)
RunPayload(C, s) ==
  IF s.L.pc = "loop" THEN s
  ELSE RunPayload(C, DoStep(C, s.N, s.L, CHOOSE row \in Candidates(C, s.L) : TRUE))

\* the call r goes on with the session and the id sequences of s
Advance(r, s) ==
  /\ run' = [run EXCEPT ![r] = s.L]
  /\ nextId' = s.N

----------------------------------------------------------------------------
(* Actions.  r is a call of save_player_data with its own session. *)

Active(r) == run[r].pc \notin {"idle", "returned", "raised"}

\* repository.py 324-328: save_player_data is called with some list
Start(r) ==
  /\ ~Active(r)
  /\ started < MaxBatches
  /\ started' = started + 1
  /\ run' = [run EXCEPT ![r] = [IdleRun EXCEPT !.pc = "loop", !.begin = committed]]
  /\ given' = <<>>
  /\ snapshot' = EmptyTables
  /\ replayable' = FALSE
  /\ UNCHANGED <<pipe, probe, committed, nextId>>

\* save_player_data is called with a list of valid payloads that is kept
StartRecord(r) ==
  /\ ~Active(r)
  /\ started < MaxBatches
  /\ started' = started + 1
  /\ run' = [run EXCEPT ![r] = [IdleRun EXCEPT !.pc = "loop", !.mode = "record",
                                               !.begin = committed]]
  /\ given' = <<>>
  /\ snapshot' = EmptyTables
  /\ replayable' = FALSE
  /\ UNCHANGED <<pipe, probe, committed, nextId>>

\* save_player_data is called again with the list of the previous call
StartReplay(r) ==
  /\ ~Active(r)
  /\ replayable
  /\ started < MaxBatches
  /\ started' = started + 1
  /\ run' = [run EXCEPT ![r] = [IdleRun EXCEPT !.pc = "loop", !.mode = "replay",
                                               !.begin = committed]]
  /\ replayable' = FALSE
  /\ UNCHANGED <<pipe, probe, committed, nextId, snapshot, given>>

\* repository.py 329-444: one payload of a free list is processed
Process(r) ==
  /\ run[r].pc = "loop"
  /\ run[r].mode = "free"
  /\ run[r].idx < MaxLen
  /\ \E player_data \in Payloads :
       Advance(r, RunPayload(committed,
                             [N |-> nextId,
                              L |-> BeginPayload(committed, run[r], player_data)]))
  /\ UNCHANGED <<pipe, probe, committed, started, given, snapshot, replayable>>

\* one payload of a list that is kept is processed
ProcessRecord(r) ==
  /\ run[r].pc = "loop"
  /\ run[r].mode = "record"
  /\ run[r].idx < MaxLen
  /\ \E player_data \in Payloads :
       /\ ValidPayload(player_data)
       /\ Advance(r, RunPayload(committed,
                                [N |-> nextId,
                                 L |-> BeginPayload(committed, run[r], player_data)]))
       /\ given' = Append(given, player_data)
  /\ UNCHANGED <<pipe, probe, committed, started, snapshot, replayable>>

\* the next payload of the list given again is processed
ProcessReplay(r) ==
  /\ run[r].pc = "loop"
  /\ run[r].mode = "replay"
  /\ run[r].idx < Len(given)
  /\ Advance(r, RunPayload(committed,
                           [N |-> nextId,
                            L |-> BeginPayload(committed, run[r],
                                               given[run[r].idx + 1])]))
  /\ UNCHANGED <<pipe, probe, committed, started, given, snapshot, replayable>>

\* repository.py 329-335: the loop takes the next payload
Pick(r) ==
  /\ run[r].pc = "loop"
  /\ run[r].idx < MaxLen
  /\ \E player_data \in ({Payload(TeamA, PlayerP, NoneV, IntV(16)),
                         Payload(TeamB, PlayerP, NoneV, IntV(16)),
                         Payload(TeamB, PlayerP, Season2023, StrV(<<"9">>))}) :
       run' = [run EXCEPT ![r] = BeginPayload(committed, run[r], player_data)]
  /\ UNCHANGED <<pipe, probe, committed, nextId, started, given, snapshot, replayable>>

\* a lookup: get_by_name, get_by_name_and_team, get_by_player_and_season
Lookup(r) ==
  /\ run[r].pc \in {"team_lookup", "season_lookup", "player_lookup", "stats_lookup"}
  /\ \E choice \in Candidates(committed, run[r]) :
       run' = [run EXCEPT ![r] = DoStep(committed, nextId, run[r], choice).L]
  /\ UNCHANGED <<pipe, probe, committed, nextId, started, given, snapshot, replayable>>

\* BaseRepository.create, repository.py 23-33: the INSERT of a flush; it
\* waits while another open transaction holds the same unique key
Create(r) ==
  /\ run[r].pc \in {"team_create", "season_create", "player_create", "stats_create"}
  /\ run[r].pc = "team_create" =>
       ~\E o \in Runs \ {r} : \E row \in run[o].ins.teams : row.name = TeamName(run[r])
  /\ run[r].pc = "season_create" =>
       ~\E o \in Runs \ {r} : \E row \in run[o].ins.seasons : row.name = SeasonName(run[r])
  /\ Advance(r, DoStep(committed, nextId, run[r], NoRow))
  /\ UNCHANGED <<pipe, probe, committed, started, given, snapshot, replayable>>

\* the list is exhausted (a list given again: all of it has been taken)
ListDone(L) == L.mode # "replay" \/ L.idx = Len(given)

\* repository.py 446-447 with connection.py 99: commit, then return the counts
Commit(r) ==
  LET L == run[r]
  IN  /\ L.pc = "loop"
      /\ ListDone(L)
      /\ committed' = session_scope_commit(committed, L)
      /\ run' = [run EXCEPT ![r] = [Rollback(L) EXCEPT !.pc = "returned"]]
      /\ snapshot' = IF L.mode = "record" THEN committed' ELSE snapshot
      /\ replayable' = (L.mode = "record" /\ L.idx > 0)
      /\ UNCHANGED <<pipe, probe, nextId, started, given>>

\* connection.py 99-103: the commit fails; rollback, the exception propagates
CommitFail(r) ==
  LET L == run[r]
  IN  /\ L.pc = "loop"
      /\ ListDone(L)
      /\ committed' = session_scope_rollback(committed, L)
      /\ run' = [run EXCEPT ![r] =
                   [Rollback(L) EXCEPT !.pc = "raised", !.failure = "commit"]]
      /\ given' = <<>>
      /\ snapshot' = EmptyTables
      /\ replayable' = FALSE
      /\ UNCHANGED <<pipe, probe, nextId, started>>

\* connection.py 100-103: an exception escapes the loop (the iteration of the
\* list raises); rollback, the exception propagates
BodyFail(r) ==
  LET L == run[r]
  IN  /\ L.pc = "loop"
      /\ L.idx < MaxLen
      /\ committed' = session_scope_rollback(committed, L)
      /\ run' = [run EXCEPT ![r] =
                   [Rollback(L) EXCEPT !.pc = "raised", !.failure = "body"]]
      /\ given' = <<>>
      /\ snapshot' = EmptyTables
      /\ replayable' = FALSE
      /\ UNCHANGED <<pipe, probe, nextId, started>>

\* one call at a time
SeqRuns == {1}

Next ==
  \E r \in SeqRuns :
    \/ Start(r) \/ StartRecord(r) \/ StartReplay(r)
    \/ Process(r) \/ ProcessRecord(r) \/ ProcessReplay(r)
    \/ Commit(r) \/ CommitFail(r) \/ BodyFail(r)

Spec == Init /\ [][Next]_vars

\* calls that interleave, each in its own session
ConcNext ==
  \E r \in Runs :
    \/ Start(r) \/ Pick(r) \/ Lookup(r) \/ Create(r)
    \/ Commit(r) \/ CommitFail(r) \/ BodyFail(r)

ConcSpec == Init /\ [][ConcNext]_vars

\* repository.py 329-335: the loop takes the next payload
PickRace(r) ==
  /\ run[r].pc = "loop"
  /\ run[r].idx < MaxLen
  /\ \E player_data \in ({Payload(TeamA, PlayerP, NoneV, IntV(16)),
                         Payload(TeamB, PlayerP, NoneV, IntV(16))}) :
       run' = [run EXCEPT ![r] = BeginPayload(committed, run[r], player_data)]
  /\ UNCHANGED <<pipe, probe, committed, nextId, started, given, snapshot, replayable>>

RaceNext ==
  \E r \in Runs :
    \/ Start(r) \/ PickRace(r) \/ Lookup(r) \/ Create(r)
    \/ Commit(r) \/ CommitFail(r) \/ BodyFail(r)

RaceSpec == Init /\ [][RaceNext]_vars

\* repository.py 324-328: save_player_data is called, possibly after the
\* calls before it have returned
StartDup(r) ==
  /\ ~Active(r)
  /\ started < MaxBatches + 1
  /\ started' = started + 1
  /\ run' = [run EXCEPT ![r] = [IdleRun EXCEPT !.pc = "loop", !.begin = committed]]
  /\ given' = <<>>
  /\ snapshot' = EmptyTables
  /\ replayable' = FALSE
  /\ UNCHANGED <<pipe, probe, committed, nextId>>

\* repository.py 329-335: the loop takes the next payload
PickDup(r) ==
  /\ run[r].pc = "loop"
  /\ run[r].idx < MaxLen
  /\ \E player_data \in ({Payload(TeamA, StrV(<<"Q">>), NoneV, IntV(16)),
                         Payload(TeamA, PlayerP, NoneV, IntV(16))}) :
       run' = [run EXCEPT ![r] = BeginPayload(committed, run[r], player_data)]
  /\ UNCHANGED <<pipe, probe, committed, nextId, started, given, snapshot, replayable>>

DupNext ==
  \E r \in Runs :
    \/ StartDup(r) \/ PickDup(r) \/ Lookup(r) \/ Create(r)
    \/ Commit(r) \/ CommitFail(r) \/ BodyFail(r)

DupSpec == Init /\ [][DupNext]_vars

----------------------------------------------------------------------------
(* Calls whose payloads carry the descriptive fields of the team and the   *)
(* player, one after another                                               *)

\* payloads about one player of one team: fields present, blank, absent,
\* numbers that do not parse
AttrPayloads ==
  {MergeDict(Payload(TeamA, PlayerP, NoneV, IntV(16)),
              [position |-> StrV(<<"F">>), age |-> IntV(30),
               team_url |-> StrV(<<"u">>)]),
   MergeDict(Payload(TeamA, PlayerP, NoneV, StrV(<<"9">>)),
              [position |-> StrV(<<"M">>), player_url |-> StrV(<<"p">>),
               team_url |-> StrV(<<"v">>)]),
   MergeDict(Payload(TeamA, PlayerP, NoneV, StrV(<<"x">>)),
              [position |-> StrV(<<" ">>), nationality |-> StrV(<<"N">>),
               age |-> StrV(<<"x">>)]),
   MergeDict(Payload(TeamA, PlayerP, NoneV, NanV),
              [age |-> StrV(<<"3", "1">>), expected_goals |-> NanV]),
   Payload(TeamA, PlayerP, NoneV, NoneV)}

\* repository.py 329-444: one payload of such a list is processed
ProcessAttr(r) ==
  /\ run[r].pc = "loop"
  /\ run[r].mode = "free"
  /\ run[r].idx < MaxLen
  /\ \E player_data \in AttrPayloads :
       Advance(r, RunPayload(committed,
                             [N |-> nextId,
                              L |-> BeginPayload(committed, run[r], player_data)]))
  /\ UNCHANGED <<pipe, probe, committed, started, given, snapshot, replayable>>

AttrNext ==
  \E r \in SeqRuns :
    \/ Start(r) \/ ProcessAttr(r)
    \/ Commit(r) \/ CommitFail(r) \/ BodyFail(r)

AttrSpec == Init /\ [][AttrNext]_vars

----------------------------------------------------------------------------
(* The pipeline: main.py run_full_pipeline and scrape_league_data, and the *)
(* scraper's get_league_teams, scrape_player_data and get_team_squad_data. *)
(* A page is what a GET of a URL gives: the request raises, or it answers  *)
(* with a status and a document that has or lacks the squad table (with a  *)
(* number of player rows) and the h1 heading; a league page links to a     *)
(* number of team pages.                                                   *)

MaxLeagues == 1
MaxTeams == 2

Page(raises, status, table, heading, rows, teams) ==
  [raises |-> raises, status |-> status, table |-> table, heading |-> heading,
   rows |-> rows, teams |-> teams]

\* an entry of the log: a GET, a time.sleep(self.delay), a save
Event(e, league, team, page) ==
  [e |-> e, league |-> league, team |-> team, page |-> page]

NoPage == Page(FALSE, 0, FALSE, FALSE, 0, 0)

\* fbref_scraper.py 228-290: what get_team_squad_data returns for a page
\* (df FALSE is None) and whether it reached time.sleep
get_team_squad_data(page) ==
  IF page.raises \/ page.status # 200 \/ ~page.table
  THEN [df |-> FALSE, rows |-> 0, team_name |-> "none", slept |-> FALSE]
  ELSE [df |-> TRUE, rows |-> page.rows,
        team_name |-> IF page.heading THEN "heading" ELSE "url", slept |-> TRUE]

\* fbref_scraper.py 344-375: the team URLs get_league_teams returns for a
\* page and whether it reached time.sleep
get_league_teams(page) ==
  IF page.raises \/ page.status # 200
  THEN [teams |-> 0, slept |-> FALSE]
  ELSE [teams |-> page.teams, slept |-> TRUE]

\* the log entries of one call that fetches
Fetched(league, team, page, slept) ==
  <<Event("fetch", league, team, page)>>
    \o (IF slept THEN <<Event("sleep", league, team, NoPage)>> ELSE <<>>)

\* fbref_scraper.py 437-445: the payloads built from a squad
PayloadsOf(league, team, squad) ==
  IF squad.df /\ squad.rows > 0
  THEN [i \in 1..squad.rows |->
          [league |-> league, team |-> team, team_name |-> squad.team_name]]
  ELSE <<>>

ScrapeTeam_stops_on_failure(p, page) ==
  [p EXCEPT !.log = @ \o Fetched(p.league, p.team, page,
                                 get_team_squad_data(page).slept),
            !.data = @ \o PayloadsOf(p.league, p.team, get_team_squad_data(page)),
            !.team = IF get_team_squad_data(page).df THEN @ + 1 ELSE p.teams + 1]

\* fbref_scraper.py 432-451: one iteration of the loop of scrape_player_data
ScrapeTeam(p, page) ==
  [p EXCEPT !.log = @ \o Fetched(p.league, p.team, page,
                                 get_team_squad_data(page).slept),
            !.data = @ \o PayloadsOf(p.league, p.team, get_team_squad_data(page)),
            !.team = @ + 1]

\* main.py 68-79: the league page is fetched; with no team the league is
\* skipped
ScrapeLeague(p, page) ==
  [p EXCEPT !.log = @ \o Fetched(p.league, 0, page, get_league_teams(page).slept),
            !.teams = get_league_teams(page).teams,
            !.team = 1,
            !.pc = IF get_league_teams(page).teams = 0 THEN "league" ELSE "team",
            !.league = IF get_league_teams(page).teams = 0 THEN @ + 1 ELSE @]

\* main.py 102-120: run_full_pipeline is called; initialize_database
\* succeeds or not
PipeStart ==
  /\ pipe.pc = "idle"
  /\ \E n \in 1..MaxLeagues : \E db_ok \in BOOLEAN :
       pipe' = IF db_ok
               THEN [pipe EXCEPT !.pc = "league", !.leagues = n, !.league = 1]
               ELSE [pipe EXCEPT !.pc = "done", !.result = "False"]
  /\ UNCHANGED <<committed, nextId, run, started, given, snapshot, replayable, probe>>

\* main.py 144-160: run_single_team is called; initialize_database succeeds
\* or not; scrape_player_data gets the one team URL (no league: leagues = 0)
RunSingleTeam ==
  /\ pipe.pc = "idle"
  /\ \E db_ok \in BOOLEAN :
       pipe' = IF db_ok
               THEN [pipe EXCEPT !.pc = "team", !.teams = 1, !.team = 1]
               ELSE [pipe EXCEPT !.pc = "done", !.result = "False"]
  /\ UNCHANGED <<committed, nextId, run, started, given, snapshot, replayable, probe>>

\* main.py 63-73: scrape_league_data takes the next league URL
GetLeagueTeams ==
  /\ pipe.pc = "league"
  /\ pipe.league <= pipe.leagues
  /\ \E page \in ({Page(FALSE, 200, FALSE, TRUE, 0, n) : n \in 0..MaxTeams}
                  \cup {Page(FALSE, 404, FALSE, FALSE, 0, 0), Page(TRUE, 0, FALSE, FALSE, 0, 0)}) :
       pipe' = ScrapeLeague(pipe, page)
  /\ UNCHANGED <<committed, nextId, run, started, given, snapshot, replayable, probe>>

\* fbref_scraper.py 432-451: scrape_player_data takes the next team URL
GetTeamSquadData ==
  /\ pipe.pc = "team"
  /\ pipe.team <= pipe.teams
  /\ \E page \in ({Page(FALSE, 200, TRUE, TRUE, 1, 0),
                  Page(FALSE, 200, TRUE, TRUE, 0, 0),
                  Page(FALSE, 200, TRUE, FALSE, 1, 0),
                  Page(FALSE, 200, FALSE, TRUE, 0, 0),
                  Page(FALSE, 404, FALSE, FALSE, 0, 0),
                  Page(TRUE, 0, FALSE, FALSE, 0, 0)}) :
       pipe' = ScrapeTeam(pipe, page)
  /\ UNCHANGED <<committed, nextId, run, started, given, snapshot, replayable, probe>>

\* fbref_scraper.py 453-454, main.py 79-82: scrape_player_data returns
ScrapeDone ==
  /\ pipe.pc = "team"
  /\ pipe.team > pipe.teams
  /\ pipe' = [pipe EXCEPT !.pc = "league", !.league = @ + 1]
  /\ UNCHANGED <<committed, nextId, run, started, given, snapshot, replayable, probe>>

\* main.py 122-134 and 161-169 with 91-100: nothing scraped -> False; else
\* the one save_player_data call of the run, which returns counts or
\* raises, and True
SaveData ==
  /\ pipe.pc = "league"
  /\ pipe.league > pipe.leagues
  /\ \E saved \in BOOLEAN :
       pipe' = IF pipe.data = <<>>
               THEN [pipe EXCEPT !.pc = "done", !.result = "False"]
               ELSE IF saved
               THEN [pipe EXCEPT !.pc = "done", !.result = "True",
                                 !.log = Append(@, Event("save", 0, 0, NoPage))]
               ELSE [pipe EXCEPT !.pc = "done", !.result = "True",
                                 !.log = Append(@, Event("save_failed", 0, 0, NoPage))]
  /\ UNCHANGED <<committed, nextId, run, started, given, snapshot, replayable, probe>>

PipeNext ==
  \/ PipeStart \/ RunSingleTeam
  \/ GetLeagueTeams \/ GetTeamSquadData \/ ScrapeDone \/ SaveData

PipeSpec == Init /\ [][PipeNext]_vars

----------------------------------------------------------------------------
(* The numeric coercions called on their own: probe holds the arguments    *)
(* and the outcome of the last call.                                       *)

MaxStr == 2

CoerceInputs ==
  {NoneV, BoolV(TRUE), BoolV(FALSE), IntV(42), IntV(0), IntV(-3),
   NanV, InfV, FloatV(FALSE, 12345), FloatV(TRUE, 27), ([t |-> "list"]),
   StrV(<<"1", ",", "2", "3", "4">>), StrV(<<"1", "2", "3", "4", ".", "0">>),
   StrV(<<"n", "a", "n">>), StrV(<<"i", "n", "f">>)}
    \cup {StrV(str) : str \in UNION {[1..k -> {"1", "5", ",", ".", " ", "-", "x"}] : k \in 0..MaxStr}}

\* a call _coerce_int(value, default)
CoerceInt ==
  /\ \E value \in CoerceInputs : \E default \in ({IntV(0), NoneV}) :
       probe' = [fn |-> "int", value |-> value, default |-> default,
                 out |-> _coerce_int(value, default)]
  /\ UNCHANGED <<committed, nextId, run, started, given, snapshot, replayable, pipe>>

\* a call _coerce_float(value, default)
CoerceFloat ==
  /\ \E value \in CoerceInputs : \E default \in {FloatV(FALSE, 0)} :
       probe' = [fn |-> "float", value |-> value, default |-> default,
                 out |-> _coerce_float(value, default)]
  /\ UNCHANGED <<committed, nextId, run, started, given, snapshot, replayable, pipe>>

CoerceNext == CoerceInt \/ CoerceFloat

CoerceSpec == Init /\ [][CoerceNext]_vars

----------------------------------------------------------------------------
(* _parse_season_bounds called on its own: probe holds the label and the   *)
(* bounds returned.  A label is a concatenation of a few tokens.           *)

MaxTok == 3

Year2024 == <<"2", "0", "2", "4">>
Year2025 == <<"2", "0", "2", "5">>

RECURSIVE Concat(_)
Concat(tokens) ==
  IF tokens = <<>> THEN <<>> ELSE Head(tokens) \o Concat(Tail(tokens))

SeasonInputs ==
  {NoneV, IntV(2024),
   StrV(Year2025 \o <<" ", "-", " ">> \o Year2024),
   StrV(Year2025 \o <<" ">> \o Year2024 \o <<"-">> \o Year2025),
   StrV(<<"x", " ">> \o Year2024 \o <<"/", "2", "5">>),
   StrV(Year2024 \o <<"EN_DASH">> \o Year2025),
   StrV(Year2025 \o <<"EN_DASH", " ">> \o Year2024),
   StrV(Year2024 \o <<"1">>),
   StrV(<<"1">> \o Year2024 \o <<"-">> \o Year2025 \o <<"1">>)}
    \cup {StrV(Concat(tokens)) :
            tokens \in UNION {[1..k -> {Year2024, Year2025, <<"-">>, <<" ">>, <<"x">>}]
                                : k \in 0..MaxTok}}

\* a call _parse_season_bounds(season_name)
ParseSeasonBounds ==
  /\ \E season_name \in SeasonInputs :
       probe' = [fn |-> "season", value |-> season_name,
                 out |-> _parse_season_bounds(season_name)]
  /\ UNCHANGED <<committed, nextId, run, started, given, snapshot, replayable, pipe>>

SeasonSpec == Init /\ [][ParseSeasonBounds]_vars

----------------------------------------------------------------------------
(* FBRefScraper._clean_column_names called on its own.  A header cell is a *)
(* string or a tuple of strings, [t |-> "tuple", parts |-> <<...>>]; a     *)
(* name is a string.                                                       *)

MaxCols == 3

TupleV(parts) == [t |-> "tuple", parts |-> parts]

Unnamed == <<"U", "n", "n", "a", "m", "e", "d">>

\* fbref_scraper.py 125-129: the parts kept of a tuple, stripped
KeptParts(column) ==
  LET kept == SelectSeq(column.parts,
                        LAMBDA part :
                          /\ part # <<>>
                          /\ ~(/\ Len(part) >= Len(Unnamed)
                               /\ SubSeq(part, 1, Len(Unnamed)) = Unnamed))
  IN  [i \in 1..Len(kept) |-> Strip(kept[i])]

\* fbref_scraper.py 124-132: the name read from a header cell; of a tuple,
\* parts[-1] if parts else str(column[-1]).strip()
ColumnName(column) ==
  IF column.t # "tuple" THEN Strip(PyStr(column))
  ELSE IF KeptParts(column) # <<>>
  THEN KeptParts(column)[Len(KeptParts(column))]
  ELSE Strip(column.parts[Len(column.parts)])

\* fbref_scraper.py 134-135: an empty name becomes column_<position>
Named(cleaned_columns, name) ==
  IF name = <<>>
  THEN <<"c", "o", "l", "u", "m", "n", "_">> \o NatToChars(Len(cleaned_columns))
  ELSE name

\* fbref_scraper.py 137-143: a name seen before gets the next counter as a
\* suffix; seen records the name before the suffix
Suffixed(st, name) ==
  IF name \in DOMAIN st.seen
  THEN [cleaned_columns |->
          Append(st.cleaned_columns,
                 name \o <<"_">> \o NatToChars(st.seen[name] + 1)),
        seen |-> [st.seen EXCEPT ![name] = @ + 1]]
  ELSE [cleaned_columns |-> Append(st.cleaned_columns, name),
        seen |-> MergeDict(st.seen, name :> 0)]

\* fbref_scraper.py 123-143: the loop over the columns
RECURSIVE CleanFrom(_, _)
CleanFrom(columns, st) ==
  IF columns = <<>> THEN st.cleaned_columns
  ELSE CleanFrom(Tail(columns),
                 Suffixed(st, Named(st.cleaned_columns, ColumnName(Head(columns)))))

\* FBRefScraper._clean_column_names
_clean_column_names(columns) ==
  CleanFrom(columns, [cleaned_columns |-> <<>>, seen |-> <<>>])

\* header cells: plain, already suffixed, blank, multi-level with an
\* Unnamed level, multi-level ending in a blank
HeaderCells ==
  {StrV(<<"a">>), StrV(<<"a", "_", "1">>), StrV(<<" ">>), StrV(<<"c", "o", "l", "u", "m", "n", "_", "1">>),
   TupleV(<<Unnamed \o <<":", "0">>, <<"a">>>>),
   TupleV(<<<<"b">>, <<"a", "_", "1">>>>),
   TupleV(<<<<"a">>, <<>>>>),
   TupleV(<<Unnamed, Unnamed \o <<" ">>>>),
   TupleV(<<<<>>, <<" ">>>>)}

\* a call _clean_column_names(columns)
CleanColumnNames ==
  /\ \E columns \in UNION {[1..k -> HeaderCells] : k \in 0..MaxCols} :
       probe' = [fn |-> "columns", value |-> columns,
                 out |-> _clean_column_names(columns)]
  /\ UNCHANGED <<committed, nextId, run, started, given, snapshot, replayable, pipe>>

ColumnSpec == Init /\ [][CleanColumnNames]_vars

----------------------------------------------------------------------------
(* FBRefScraper._clean_player_name called on its own *)

MaxName == 3

\* pd.isna(name) of a scalar
IsNa(name) == name.t = "none" \/ (name.t = "float" /\ name.k = "nan")

\* FBRefScraper._clean_player_name: "" for a missing name; else strip, then
\* replace("\xa0", " "), then re.sub(r"[+*]+", "", ...); an empty string
\* stays empty
_clean_player_name(name) ==
  IF IsNa(name) THEN <<>>
  ELSE SelectSeq([i \in 1..Len(Strip(PyStr(name))) |->
                    IF Strip(PyStr(name))[i] = "NBSP" THEN " "
                    ELSE Strip(PyStr(name))[i]],
                 LAMBDA c : c \notin {"+", "*"})

NameInputs ==
  {NoneV, NanV, IntV(7)}
    \cup {StrV(str) :
            str \in UNION {[1..k -> {"P", " ", "NBSP", "*", "+"}] : k \in 0..MaxName}}

\* a call _clean_player_name(name)
CleanPlayerName ==
  /\ \E name \in NameInputs :
       probe' = [fn |-> "name", value |-> name, out |-> _clean_player_name(name)]
  /\ UNCHANGED <<committed, nextId, run, started, given, snapshot, replayable, pipe>>

NameSpec == Init /\ [][CleanPlayerName]_vars

----------------------------------------------------------------------------
(* get_team_squad_data from the squad table to the frame it returns        *)
(* (fbref_scraper.py 246-281).  A table has the tr rows of its tbody and   *)
(* of its tfoot; a tr has the text of its player cell, the class thead or  *)
(* not, and the href of the anchor of its player cell ("none": no anchor). *)
(* A frame is the sequence of its rows; row is the position the row had in *)
(* the table as read (the index label before reset_index).                 *)

MaxRows == 2

Tr(player, thead, href) == [player |-> player, thead |-> thead, href |-> href]

SquadTotal == <<"S", "q", "u", "a", "d", " ", "T", "o", "t", "a", "l">>

\* FBRefScraper.INVALID_PLAYER_NAMES
INVALID_PLAYER_NAMES ==
  {<<"s", "q", "u", "a", "d", " ", "t", "o", "t", "a", "l">>,
   <<"s", "q", "u", "a", "d", " ", "t", "o", "t", "a", "l", " ", "2">>,
   <<"o", "p", "p", "o", "n", "e", "n", "t", " ", "t", "o", "t", "a", "l">>,
   <<"o", "p", "p", "o", "n", "e", "n", "t">>,
   <<"m", "a", "t", "c", "h", "e", "s">>}

Tables ==
  {[body |-> body, foot |-> foot] :
     body \in UNION {[1..k -> ({Tr(StrV(<<"P">>), FALSE, "p"),
                               Tr(StrV(<<"Q", "*">>), FALSE, "q"),
                               Tr(StrV(<<"P">>), FALSE, "none"),
                               Tr(NanV, FALSE, "none"),
                               Tr(StrV(SquadTotal), FALSE, "none"),
                               Tr(StrV(SquadTotal \o <<" ", "*">>), FALSE, "none"),
                               Tr(StrV(<<"x", " ", "T", "O", "T", "A", "L">>), FALSE, "t"),
                               Tr(StrV(<<"P", "l", "a", "y", "e", "r">>), TRUE, "none")})] : k \in 0..MaxRows},
     foot \in ({<<>>, <<Tr(StrV(SquadTotal), FALSE, "none")>>})}

\* fbref_scraper.py 246: pd.read_html gives one row per tr of the tbody and
\* of the tfoot
read_html(table) ==
  [i \in 1..(Len(table.body) + Len(table.foot)) |->
     [row |-> i,
      player_name |-> IF i <= Len(table.body) THEN table.body[i].player
                      ELSE table.foot[i - Len(table.body)].player,
      player_url |-> NoneV]]

\* a match of total$ without regard to case: at the end, or before a
\* newline at the end
MatchesTotal(name) ==
  \/ /\ Len(name) >= 5
     /\ Lower(SubSeq(name, Len(name) - 4, Len(name))) = <<"t", "o", "t", "a", "l">>
  \/ /\ Len(name) >= 6
     /\ name[Len(name)] = "\n"
     /\ Lower(SubSeq(name, Len(name) - 5, Len(name) - 1)) = <<"t", "o", "t", "a", "l">>

\* fbref_scraper.py 194-196 on a cleaned name: the row stays
KeepsName(player_name) ==
  /\ Strip(player_name) # <<>>
  /\ Lower(player_name) \notin INVALID_PLAYER_NAMES
  /\ ~MatchesTotal(player_name)

\* fbref_scraper.py 193: the names of the frame are cleaned
CleanNames(df) ==
  [i \in 1..Len(df) |->
     [df[i] EXCEPT !.player_name = StrV(_clean_player_name(df[i].player_name))]]

\* FBRefScraper._normalise_squad_dataframe, lines 191-196
_normalise_squad_dataframe(dataframe) ==
  SelectSeq(CleanNames(SelectSeq(dataframe, LAMBDA r : ~IsNa(r.player_name))),
            LAMBDA r : KeepsName(r.player_name.v))

\* fbref_scraper.py 267-278: one entry per tr of the tbody that is not of
\* class thead
player_links(table) ==
  LET trs == SelectSeq(table.body, LAMBDA tr : ~tr.thead)
  IN  [i \in 1..Len(trs) |->
         IF trs[i].href = "none" THEN NoneV ELSE StrV(<<trs[i].href>>)]

\* fbref_scraper.py 280-281
AssignLinks(df, links) ==
  IF links # <<>> /\ Len(links) >= Len(df)
  THEN [i \in 1..Len(df) |-> [df[i] EXCEPT !.player_url = links[i]]]
  ELSE df

\* a call get_team_squad_data on a page with this squad table
GetSquad ==
  /\ \E table \in Tables :
       probe' = [fn |-> "squad", value |-> table,
                 frame |-> _normalise_squad_dataframe(read_html(table)),
                 links |-> player_links(table),
                 out |-> AssignLinks(_normalise_squad_dataframe(read_html(table)),
                                     player_links(table))]
  /\ UNCHANGED <<committed, nextId, run, started, given, snapshot, replayable, pipe>>

SquadSpec == Init /\ [][GetSquad]_vars

----------------------------------------------------------------------------
(* Properties *)

\* the rows of store C that hold the record identified by key
TeamsOf(C, key) == {t \in C.teams : t.name = key.team}
SeasonsOf(C, key) == {x \in C.seasons : x.name = key.season}
PlayersOf(C, key) ==
  {p \in C.players : p.name = key.player /\ \E t \in TeamsOf(C, key) : p.team_id = t.id}
StatsOf(C, key) ==
  {st \in C.player_stats :
     /\ \E p \in PlayersOf(C, key) : st.player_id = p.id
     /\ \E x \in SeasonsOf(C, key) : st.season_id = x.id}

KeyOfPayload(player_data) == PayloadKey([cur |-> player_data])

\* the goals counter a payload asks for
GoalsOf(player_data) == OrZero(_coerce_int(DictGet(player_data, "goals"), IntV(0)).v)

\* the last payload of the given list that is about the same record as given[i]
LastForKey(i) ==
  \A j \in (i + 1)..Len(given) : KeyOfPayload(given[j]) # KeyOfPayload(given[i])

\* C1: a list of valid payloads saved a second time leaves the rows of the
\* first save: no row is added, every row keeps its id, and each PlayerStats
\* row holds the counters of the (last) payload about it.
C1_SaveTwiceSameRows ==
  \A r \in Runs :
    (run[r].mode = "replay" /\ run[r].pc = "returned") =>
      /\ committed = snapshot
      /\ run[r].stats.errors = 0
      /\ \A i \in 1..Len(given) :
           LastForKey(i) =>
             /\ Cardinality(StatsOf(committed, KeyOfPayload(given[i]))) = 1
             /\ \A st \in StatsOf(committed, KeyOfPayload(given[i])) :
                  st.goals = GoalsOf(given[i])

C1_Witness ==
  \E r \in Runs :
    /\ run[r].mode = "replay"
    /\ run[r].pc = "returned"
    /\ Len(given) = 2
    /\ KeyOfPayload(given[1]) = KeyOfPayload(given[2])
    /\ GoalsOf(given[1]) # GoalsOf(given[2])
    /\ Cardinality(committed.player_stats) >= 1

\* C2: the store holds at most one PlayerStats row per (player_id, season_id).
C2_OneStatsRowPerPlayerSeason ==
  \A r \in Runs :
    \A a, b \in View(committed, run[r]).player_stats \cup committed.player_stats :
      (a.player_id = b.player_id /\ a.season_id = b.season_id) => a.id = b.id

C2_Witness ==
  \E r \in Runs :
    /\ run[r].pc = "returned"
    /\ started = 2
    /\ run[r].existing_id # 0
    /\ Cardinality(committed.player_stats) >= 2
    /\ run[r].begin.player_stats # {}

\* C3: no two Team rows share a name, no two Season rows a label, no two
\* Player rows the same (name, team_id).
C3_GetOrCreateNoDuplicate ==
  \A r \in Runs :
    LET V == View(committed, run[r])
    IN  /\ \A a, b \in V.teams \cup committed.teams : a.name = b.name => a.id = b.id
        /\ \A a, b \in V.seasons \cup committed.seasons : a.name = b.name => a.id = b.id
        /\ \A a, b \in V.players \cup committed.players :
             (a.name = b.name /\ a.team_id = b.team_id) => a.id = b.id

C3_Witness ==
  \E r \in Runs :
    /\ run[r].pc = "returned"
    /\ run[r].stats.stats = 2
    /\ \E t \in run[r].begin.teams : t.id \in run[r].resolved_team_ids
    /\ \E p \in run[r].begin.players : p.id \in run[r].resolved_player_ids
    /\ Cardinality(committed.teams) = 2
    /\ Cardinality(committed.players) = 2

\* a step of call r that processes one payload
ProcessedOne(r) == run[r].pc = "loop" /\ run'[r].idx = run[r].idx + 1

BlankNames(player_data) ==
  \/ _normalise_string(DictGet(player_data, "team_name")) = <<>>
  \/ _normalise_string(DictGet(player_data, "player_name")) = <<>>

\* C4: a payload whose team name or player name is blank after trimming adds
\* no Team, Season, Player or PlayerStats row: the store is left unchanged.
C4_BlankNameLeavesStoreUnchanged ==
  [][\A r \in SeqRuns :
       (ProcessedOne(r) /\ BlankNames(run'[r].cur)) =>
         View(committed', run'[r]) = View(committed, run[r])]_vars

\* C5: a payload with an empty player name increments errors by one and
\* creates no Player row and no PlayerStats row.
C5_EmptyPlayerNameIsError ==
  [][\A r \in SeqRuns :
       (ProcessedOne(r)
          /\ _normalise_string(DictGet(run'[r].cur, "player_name")) = <<>>) =>
         /\ run'[r].stats.errors = run[r].stats.errors + 1
         /\ run'[r].stats.players = run[r].stats.players
         /\ run'[r].stats.stats = run[r].stats.stats
         /\ View(committed', run'[r]).players = View(committed, run[r]).players
         /\ View(committed', run'[r]).player_stats
              = View(committed, run[r]).player_stats]_vars

C5_Witness ==
  \E r \in Runs :
    /\ run[r].pc = "loop"
    /\ run[r].idx > 0
    /\ PlayerName(run[r]) = <<>>
    /\ TeamName(run[r]) # <<>>
    /\ run[r].outcome = "error"
    /\ run[r].stats.errors = 1
    /\ run[r].ins.teams # {}

\* C6: a payload that fails adds exactly one to errors and does not abort the
\* batch: on return every payload was counted once, as an error or in stats,
\* and every payload that did not fail has its PlayerStats row in the store.
C6_FailureDoesNotAbortBatch ==
  \A r \in Runs :
    run[r].pc = "returned" =>
      /\ run[r].stats.errors + run[r].stats.stats = run[r].idx
      /\ \A key \in run[r].counted : StatsOf(committed, key) # {}

\* C7: a payload-level exception rolls back no write made for another
\* payload: on return every payload counted in stats has its Team, Season,
\* Player and PlayerStats rows in the store.
C7_CountedPayloadsArePersisted ==
  \A r \in Runs :
    run[r].pc = "returned" =>
      \A key \in run[r].counted :
        /\ TeamsOf(committed, key) # {}
        /\ SeasonsOf(committed, key) # {}
        /\ PlayersOf(committed, key) # {}
        /\ \E st \in StatsOf(committed, key) : TRUE

\* C8: teams and players count the distinct Team ids and Player ids that
\* get-or-create resolved during the batch.
C8_CountsAreDistinctIds ==
  \A r \in Runs :
    /\ run[r].stats.teams = Cardinality(run[r].resolved_team_ids)
    /\ run[r].stats.players = Cardinality(run[r].resolved_player_ids)

C8_Witness ==
  \E r \in Runs :
    /\ run[r].pc = "returned"
    /\ run[r].idx = 2
    /\ run[r].stats.stats = 2
    /\ run[r].stats.teams = 1
    /\ run[r].stats.players = 1

\* C9: when the transactional scope fails, save_player_data raises and none
\* of the writes of the batch are in the store.
C9_ScopeFailureRollsBack ==
  \A r \in SeqRuns :
    run[r].pc = "raised" =>
      /\ committed = run[r].begin
      /\ View(committed, run[r]) = committed

C9_Witness ==
  \E r \in SeqRuns :
    /\ run[r].pc = "raised"
    /\ run[r].failure = "commit"
    /\ run[r].stats.stats = 2
    /\ nextId.player_stats > 1 + Cardinality(committed.player_stats)

\* C10: a payload that is counted in stats overwrites the counters and the
\* raw snapshot of the existing PlayerStats row of its (player_id,
\* season_id), keeping its id and adding no row; without such a row it adds
\* exactly one row; stats grows by one either way.
C10_UpsertStatsRow ==
  [][\A r \in SeqRuns :
       (ProcessedOne(r) /\ run'[r].outcome = "ok") =>
         LET L2 == run'[r]
             before == View(committed, run[r]).player_stats
             after == View(committed', L2).player_stats
             old == {st \in before : st.player_id = L2.player_id
                                     /\ st.season_id = L2.season_id}
             new == {st \in after : st.player_id = L2.player_id
                                    /\ st.season_id = L2.season_id}
         IN  /\ L2.stats.stats = run[r].stats.stats + 1
             /\ Cardinality(new) = 1
             /\ \A st \in new : /\ st.goals = GoalsOf(L2.cur)
                                /\ st.raw_data = [json |-> L2.cur]
             /\ before \ old = after \ new
             /\ IF old # {}
                THEN {st.id : st \in new} = {st.id : st \in old}
                ELSE \A st \in new : \A o \in before : st.id # o.id]_vars

C10_Witness ==
  \E r \in SeqRuns :
    /\ run[r].pc = "loop"
    /\ run[r].outcome = "ok"
    /\ run[r].existing_id # 0
    /\ \E o \in committed.player_stats :
         /\ o.id = run[r].existing_id
         /\ o.goals # GoalsOf(run[r].cur)
         /\ \E st \in View(committed, run[r]).player_stats :
              st.id = o.id /\ st.goals = GoalsOf(run[r].cur)

\* C11: for a Player that exists, each of position, nationality, age and
\* fbref_url becomes the payload's value when that value is non-empty and
\* keeps its stored value when the payload's field is absent or blank; name
\* and team are kept.
C11_PlayerPartialUpdate ==
  [][\A r \in SeqRuns :
       (ProcessedOne(r) /\ run'[r].player_id # 0) =>
         \A old \in View(committed, run[r]).players :
           old.id = run'[r].player_id =>
             \E new \in View(committed', run'[r]).players :
               /\ new.id = old.id
               /\ new.name = old.name
               /\ new.team_id = old.team_id
               /\ \A c \in PlayerFields :
                    new[c] = IF PlayerAttrs(run'[r])[c].t = "none"
                             THEN old[c]
                             ELSE PlayerAttrs(run'[r])[c]]_vars

C11_Witness ==
  \E r \in SeqRuns :
    /\ run[r].pc = "loop"
    /\ run[r].outcome = "ok"
    /\ DictGet(run[r].cur, "position") = StrV(<<" ">>)
    /\ \E old \in committed.players :
         /\ old.id = run[r].player_id
         /\ old.position = StrV(<<"F">>)
         /\ old.nationality = NoneV
         /\ \E new \in View(committed, run[r]).players :
              /\ new.id = old.id
              /\ new.position = StrV(<<"F">>)
              /\ new.nationality = StrV(<<"N">>)

\* C12: processing a payload leaves every Team row that exists as it is,
\* whatever team_url the payload carries.
C12_ExistingTeamUntouched ==
  [][\A r \in SeqRuns :
       ProcessedOne(r) =>
         \A t \in View(committed, run[r]).teams :
           \E u \in View(committed', run'[r]).teams :
             /\ u.id = t.id
             /\ u.name = t.name
             /\ u.fbref_url = t.fbref_url
             /\ u.league = t.league
             /\ u.country = t.country]_vars

C12_Witness ==
  \E r \in SeqRuns :
    /\ run[r].pc = "loop"
    /\ run[r].outcome = "ok"
    /\ TeamUrl(run[r]) = StrV(<<"v">>)
    /\ \E t \in committed.teams :
         /\ t.id = run[r].team_id
         /\ t.fbref_url = StrV(<<"u">>)
         /\ \E u \in View(committed, run[r]).teams :
              u.id = t.id /\ u.fbref_url = StrV(<<"u">>)

\* C13: when a call inserts a team name that another call has inserted and
\* committed since it looked the name up, the insert fails: the payload is
\* counted in errors, it is not taken again, the call goes on with its next
\* payload, and the store never holds two Team rows of one name.
C13_TeamRaceLoserIsError ==
  [][/\ \A r \in Runs :
          (/\ run[r].pc = "team_create"
           /\ run'[r].pc # "team_create"
           /\ \E t \in committed.teams : t.name = TeamName(run[r])) =>
            /\ run'[r].stats.errors = run[r].stats.errors + 1
            /\ run'[r].stats.teams = run[r].stats.teams
            /\ run'[r].stats.stats = run[r].stats.stats
            /\ run'[r].pc = "loop"
            /\ run'[r].idx = run[r].idx
            /\ run'[r].ins.teams = {}
     /\ \A a, b \in committed'.teams : a.name = b.name => a.id = b.id]_vars

C13_Witness ==
  \E r \in Runs : \E o \in Runs \ {r} :
    /\ run[r].pc = "loop"
    /\ run[r].outcome = "error"
    /\ run[r].team_id = 0
    /\ run[r].stats.errors = 1
    /\ run[o].pc = "returned"
    /\ \E t \in committed.teams :
         /\ t.name = TeamName(run[r])
         /\ t.id \in run[o].resolved_team_ids
         /\ t \notin run[r].begin.teams

\* the log entry i is the GET of a team URL
IsTeamFetch(i) == pipe.log[i].e = "fetch" /\ pipe.log[i].team > 0

\* the log entry i is the GET of team URL team of league URL league
IsFetchOf(i, league, team) ==
  /\ pipe.log[i].e = "fetch"
  /\ pipe.log[i].league = league
  /\ pipe.log[i].team = team

\* C14: when the GET of team URL i+1 is issued, the payloads of team URL i
\* have been saved.
C14_TeamPersistedBeforeNextFetch ==
  \A i, j \in DOMAIN pipe.log :
    (/\ i < j
     /\ IsTeamFetch(i)
     /\ IsFetchOf(j, pipe.log[i].league, pipe.log[i].team + 1)
     /\ PayloadsOf(pipe.log[i].league, pipe.log[i].team,
                   get_team_squad_data(pipe.log[i].page)) # <<>>) =>
      \E k \in (i + 1)..(j - 1) : pipe.log[k].e = "save"

\* C15: scrape_player_data fetches each team URL of its list once, in list
\* order, whatever the earlier fetches gave; a URL whose GET raises or
\* answers with another status than 200 contributes no payload.
C15_OneFetchPerUrlInOrder ==
  /\ \A i, j \in DOMAIN pipe.log :
       (i < j /\ IsTeamFetch(i) /\ IsTeamFetch(j)
          /\ pipe.log[i].league = pipe.log[j].league) =>
         pipe.log[i].team < pipe.log[j].team
  /\ pipe.pc = "team" =>
       \A t \in 1..(pipe.team - 1) :
         \E i \in DOMAIN pipe.log : IsFetchOf(i, pipe.league, t)
  /\ \A i \in DOMAIN pipe.log :
       (IsFetchOf(i, pipe.log[i].league, 0) /\ pipe.log[i].league < pipe.league) =>
         \A t \in 1..get_league_teams(pipe.log[i].page).teams :
           \E j \in DOMAIN pipe.log : IsFetchOf(j, pipe.log[i].league, t)
  /\ \A k \in DOMAIN pipe.data : \A i \in DOMAIN pipe.log :
       IsFetchOf(i, pipe.data[k].league, pipe.data[k].team) =>
         ~pipe.log[i].page.raises /\ pipe.log[i].page.status = 200

C15_Witness ==
  /\ pipe.pc = "done"
  /\ Len(pipe.data) = 1
  /\ pipe.data[1].team = 2
  /\ \E i, j \in DOMAIN pipe.log :
       /\ i < j
       /\ IsFetchOf(i, 1, 1) /\ pipe.log[i].page.status = 404
       /\ IsFetchOf(j, 1, 2) /\ pipe.log[j].page.status = 200

\* C16: between two GETs there is a time.sleep(self.delay), whether the
\* first of them succeeded or not.
C16_DelayAfterEveryFetch ==
  \A i, j \in DOMAIN pipe.log :
    (i < j /\ pipe.log[i].e = "fetch" /\ pipe.log[j].e = "fetch") =>
      \E k \in (i + 1)..(j - 1) : pipe.log[k].e = "sleep"

\* C17: a team page that lacks the squad table or the h1 heading
\* contributes no payload.
C17_StructuralAbsenceGivesNoPayloads ==
  \A k \in DOMAIN pipe.data : \A i \in DOMAIN pipe.log :
    IsFetchOf(i, pipe.data[k].league, pipe.data[k].team) =>
      pipe.log[i].page.table /\ pipe.log[i].page.heading

\* C18: the value of a numeric field never makes a payload an error: a
\* payload with a team name and a player name is counted in stats.
C18_NumericFieldNeverAnError ==
  [][\A r \in SeqRuns :
       (ProcessedOne(r) /\ ~BlankNames(run'[r].cur)) =>
         /\ run'[r].outcome = "ok"
         /\ run'[r].stats.errors = run[r].stats.errors]_vars

\* the number a string stands for once commas are removed and it is trimmed
NumberOf(value) == ParseFloat(Strip(RemoveCommas(value.v)))

\* C19: _coerce_int returns the default for null and NaN, 0/1 for a boolean,
\* an integer itself, the truncation of any other float, and for a string
\* the truncation of its number or the default when it has none; "1,234",
\* "1234.0", None, NaN, 42 give 1234, 1234, default, default, 42.
C19_CoerceIntTable ==
  probe.fn = "int" =>
    /\ probe.out.ok
    /\ probe.value.t = "none" => probe.out.v = probe.default
    /\ probe.value.t = "bool" =>
         probe.out.v = IntV(IF probe.value.v THEN 1 ELSE 0)
    /\ probe.value.t = "int" => probe.out.v = probe.value
    /\ probe.value.t = "float" =>
         probe.out.v = IF probe.value.k = "nan" THEN probe.default
                       ELSE IntV(TruncFloat(probe.value))
    /\ probe.value.t = "str" =>
         probe.out.v = IF NumberOf(probe.value).k \in {"err", "nan"}
                       THEN probe.default
                       ELSE IntV(TruncFloat(NumberOf(probe.value)))
    /\ probe.value = StrV(<<"1", ",", "2", "3", "4">>) => probe.out.v = IntV(1234)
    /\ probe.value = StrV(<<"1", "2", "3", "4", ".", "0">>) => probe.out.v = IntV(1234)
    /\ probe.value = IntV(42) => probe.out.v = IntV(42)

\* a payload value that is absent or is no number
NoNumber(value) ==
  \/ value.t = "none"
  \/ value.t = "float" /\ value.k = "nan"
  \/ value.t = "str" /\ NumberOf(value).k \in {"err", "nan"}

\* C20: the PlayerStats row of a counted payload holds a number in every
\* counter, 0 where the payload's value is absent or unparsable; a Player
\* created from a payload whose age is absent or unparsable has age null.
C20_CountersZeroAgeNull ==
  [][\A r \in SeqRuns :
       (ProcessedOne(r) /\ run'[r].outcome = "ok") =>
         /\ \E st \in View(committed', run'[r]).player_stats :
              st.player_id = run'[r].player_id /\ st.season_id = run'[r].season_id
         /\ \A st \in View(committed', run'[r]).player_stats :
              (st.player_id = run'[r].player_id /\ st.season_id = run'[r].season_id) =>
                /\ \A c \in IntCounters :
                     /\ st[c].t = "int"
                     /\ NoNumber(CounterSource(run'[r].cur, c)) => st[c] = IntV(0)
                /\ \A c \in FloatCounters :
                     /\ st[c].t = "float" /\ st[c].k # "nan"
                     /\ NoNumber(DictGet(run'[r].cur, c)) => st[c] = FloatV(FALSE, 0)
         /\ \A p \in View(committed', run'[r]).players :
              (/\ p.id = run'[r].player_id
               /\ \A q \in View(committed, run[r]).players : q.id # p.id
               /\ NoNumber(DictGet(run'[r].cur, "age"))) =>
                p.age = NoneV]_vars

C20_Witness ==
  \E r \in SeqRuns :
    /\ run[r].pc = "loop"
    /\ run[r].outcome = "ok"
    /\ DictGet(run[r].cur, "goals") = StrV(<<"x">>)
    /\ DictGet(run[r].cur, "age") = StrV(<<"x">>)
    /\ \E p \in run[r].ins.players : p.id = run[r].player_id /\ p.age = NoneV
    /\ \E st \in View(committed, run[r]).player_stats :
         /\ st.player_id = run[r].player_id
         /\ st.season_id = run[r].season_id
         /\ st.goals = IntV(0)
         /\ st.expected_goals = FloatV(FALSE, 0)

\* the text of a season label
LabelOf(value) == IF value.t = "none" THEN <<>> ELSE PyStr(value)

\* s holds a year pair: four digits at i, a dash between optional blanks,
\* four digits at k
IsPairAt(s, i, k) ==
  /\ FourDigitsAt(s, i)
  /\ FourDigitsAt(s, k)
  /\ \E d \in (i + 4)..(k - 1) :
       /\ s[d] \in Dashes
       /\ \A j \in ((i + 4)..(k - 1)) \ {d} : s[j] \in Whitespace

HasPair(s) == \E i, k \in 1..Len(s) : IsPairAt(s, i, k)

HasYear(s) == \E i \in 1..Len(s) : FourDigitsAt(s, i)

\* C21: _parse_season_bounds returns the two years of the first year pair
\* of the label; without a pair, (y, y+1) for the first four-digit year y;
\* without a year, (current_year, current_year+1).  "2024-2025" and "2024"
\* give (2024, 2025), "" and text without a year the current-year pair.
C21_SeasonBoundsPriority ==
  probe.fn = "season" =>
    LET s == LabelOf(probe.value)
    IN  /\ Len(probe.out) = 2
        /\ HasPair(s) =>
             \E i, k \in 1..Len(s) :
               /\ IsPairAt(s, i, k)
               /\ \A i2, k2 \in 1..Len(s) : IsPairAt(s, i2, k2) => i <= i2
               /\ probe.out = <<CharsToNat(SubSeq(s, i, i + 3)),
                                CharsToNat(SubSeq(s, k, k + 3))>>
        /\ (~HasPair(s) /\ HasYear(s)) =>
             \E i \in 1..Len(s) :
               /\ FourDigitsAt(s, i)
               /\ \A i2 \in 1..Len(s) : FourDigitsAt(s, i2) => i <= i2
               /\ probe.out = <<CharsToNat(SubSeq(s, i, i + 3)),
                                CharsToNat(SubSeq(s, i, i + 3)) + 1>>
        /\ ~HasYear(s) => probe.out = <<CurrentYear, CurrentYear + 1>>
        /\ s = Year2024 \o <<"-">> \o Year2025 => probe.out = <<2024, 2025>>
        /\ s = Year2024 => probe.out = <<2024, 2025>>
        /\ s = <<>> => probe.out = <<CurrentYear, CurrentYear + 1>>

C21_Witness ==
  /\ probe.fn = "season"
  /\ probe.value = StrV(Year2025 \o <<" ">> \o Year2024 \o <<"-">> \o Year2025)
  /\ probe.out = <<2024, 2025>>

\* the name of header cell i before any suffix
BaseName(columns, i) == Named(SubSeq(columns, 1, i - 1), ColumnName(columns[i]))

\* the number of cells before i with the base name of cell i
Earlier(columns, i) ==
  Cardinality({j \in 1..(i - 1) : BaseName(columns, j) = BaseName(columns, i)})

\* C22: _clean_column_names returns as many names as there are header
\* cells, none empty, no two equal; the first cell of a name keeps it and
\* the k-th later cell of that name gets the suffix _k.
C22_ColumnNamesUnique ==
  probe.fn = "columns" =>
    /\ Len(probe.out) = Len(probe.value)
    /\ \A i \in DOMAIN probe.out : probe.out[i] # <<>>
    /\ \A i, j \in DOMAIN probe.out : i # j => probe.out[i] # probe.out[j]
    /\ \A i \in DOMAIN probe.out :
         probe.out[i] =
           IF Earlier(probe.value, i) = 0 THEN BaseName(probe.value, i)
           ELSE BaseName(probe.value, i) \o <<"_">>
                  \o NatToChars(Earlier(probe.value, i))

\* C29: _clean_player_name is idempotent and its result has no leading or
\* trailing whitespace, so that trimming it (as the repository does before
\* it stores the name) changes nothing.
C29_CleanNameIdempotentTrimmed ==
  probe.fn = "name" =>
    /\ _clean_player_name(StrV(probe.out)) = probe.out
    /\ Strip(probe.out) = probe.out
    /\ _normalise_string(StrV(probe.out)) = probe.out

\* the player name of a table row after cleaning, trimmed
TrimmedName(value) == Strip(_clean_player_name(value))

EndsWithTotal(name) ==
  /\ Len(name) >= 5
  /\ Lower(SubSeq(name, Len(name) - 4, Len(name))) = <<"t", "o", "t", "a", "l">>

\* the rejection rule of the claim on a cleaned name
Rejected(name) ==
  \/ name = <<>>
  \/ Lower(name) \in INVALID_PLAYER_NAMES
  \/ EndsWithTotal(name)

C24_FewerLinksThanRows ==
  (probe.fn = "squad" /\ 0 < Len(probe.links) /\ Len(probe.links) < Len(probe.frame)) =>
    /\ Len(probe.out) = Len(probe.frame)
    /\ \A j \in DOMAIN probe.out :
         probe.out[j].player_url =
           IF j <= Len(probe.links) THEN probe.links[j] ELSE NoneV

\* the tr of the table that row i of the frame as read comes from
SourceTr(table, i) ==
  IF i <= Len(table.body) THEN table.body[i] ELSE table.foot[i - Len(table.body)]

\* the link of the anchor of a tr, None without an anchor
LinkOf(tr) == IF tr.href = "none" THEN NoneV ELSE StrV(<<tr.href>>)

\* C30: the player_url of every row of the frame returned is the link of
\* the anchor of the table row it was read from, None when that row has no
\* anchor.
C30_LinkOfSameRow ==
  probe.fn = "squad" =>
    \A j \in DOMAIN probe.out :
      probe.out[j].player_url = LinkOf(SourceTr(probe.value, probe.out[j].row))

\* the (team, player) pairs the payloads of the given list name
PlayersNamed(payloads) ==
  {[team |-> KeyOfPayload(payloads[i]).team, player |-> KeyOfPayload(payloads[i]).player]
     : i \in DOMAIN payloads}

\* C25: payloads of one list with the same team name, player name and
\* season end in one Player row and one PlayerStats row that holds the
\* counters and the snapshot of the last of them; players counts each
\* player once and stats counts every payload.
C25_SameKeyInBatchMerged ==
  \A r \in SeqRuns :
    (run[r].mode = "record" /\ run[r].pc = "returned") =>
      /\ run[r].stats.stats = Len(given)
      /\ run[r].stats.errors = 0
      /\ run[r].stats.players = Cardinality(PlayersNamed(given))
      /\ \A i \in DOMAIN given :
           /\ Cardinality(PlayersOf(committed, KeyOfPayload(given[i]))) = 1
           /\ Cardinality(StatsOf(committed, KeyOfPayload(given[i]))) = 1
           /\ LastForKey(i) =>
                \A st \in StatsOf(committed, KeyOfPayload(given[i])) :
                  /\ st.goals = GoalsOf(given[i])
                  /\ st.raw_data = [json |-> given[i]]

C25_Witness ==
  \E r \in SeqRuns :
    /\ run[r].mode = "record"
    /\ run[r].pc = "returned"
    /\ run[r].begin.players = {}
    /\ Len(given) = 2
    /\ KeyOfPayload(given[1]) = KeyOfPayload(given[2])
    /\ GoalsOf(given[1]) # GoalsOf(given[2])
    /\ run[r].stats.players = 1
    /\ run[r].stats.stats = 2
    /\ Cardinality(committed.players) = 1
    /\ \E st \in committed.player_stats : st.goals = GoalsOf(given[2])

\* C26: when save_player_data returns, every payload of the list has been
\* counted once, in stats or in errors, and players is at most stats.
C26_StatsPlusErrorsIsN ==
  \A r \in SeqRuns :
    run[r].pc = "returned" =>
      /\ run[r].stats.stats + run[r].stats.errors = run[r].idx
      /\ run[r].stats.players <= run[r].stats.stats

\* C27: whatever the interleaving of the calls, the store holds at most one
\* Player row per (name, team_id) and at most one PlayerStats row per
\* (player_id, season_id).
C27_NoDuplicateUnderInterleaving ==
  /\ \A a, b \in committed.players :
       (a.name = b.name /\ a.team_id = b.team_id) => a.id = b.id
  /\ \A a, b \in committed.player_stats :
       (a.player_id = b.player_id /\ a.season_id = b.season_id) => a.id = b.id

\* C28: run_full_pipeline and run_single_team return True only when the
\* batch scraped was committed: when save_player_data raises, they return
\* False.
C28_TrueOnlyWhenSaved ==
  pipe.pc = "done" =>
    /\ pipe.result = "True" =>
         \E i \in DOMAIN pipe.log : pipe.log[i].e = "save"
    /\ (\E i \in DOMAIN pipe.log : pipe.log[i].e = "save_failed") =>
         pipe.result = "False"

====
